---- MODULE Spec2Model ----
(***************************************************************************)
(* A model of doc/plot_linear_lifetime.py: the linear cube lifetime        *)
(* function and the script that samples it and lays out the two y axes.    *)
(*                                                                         *)
(* Python floats are IEEE 754 binary64 values.  They are modelled exactly: *)
(* a float is sign * mant * 2^exp with a 53 bit significand, every         *)
(* arithmetic operation computes the exact result and rounds it to nearest *)
(* (ties to even).  Significands do not fit TLC's 32 bit integers, so they *)
(* are kept as little-endian sequences of limbs.  Every value of the       *)
(* script is 0 or has a magnitude between 2^-60 and 2^11, so binary64's    *)
(* exponent range (overflow, subnormals) is never met; the sign of a zero  *)
(* is not observable in the script and zero is kept unsigned.              *)
(***************************************************************************)
EXTENDS Integers, Sequences, FiniteSets, TLC

(***************************************************************************)
(* Natural numbers of any size: little-endian limbs, no leading zero limb. *)
(***************************************************************************)
Base == 2^15

RECURSIVE BNorm(_)
BNorm(a) ==
  IF a = <<>> THEN <<>>
  ELSE IF a[Len(a)] = 0 THEN BNorm(SubSeq(a, 1, Len(a) - 1))
  ELSE a

RECURSIVE BFromNat(_)
BFromNat(n) ==
  IF n = 0 THEN <<>> ELSE <<n % Base>> \o BFromNat(n \div Base)

RECURSIVE BToNat(_)
BToNat(a) ==
  IF a = <<>> THEN 0 ELSE Head(a) + Base * BToNat(Tail(a))

RECURSIVE BAddC(_, _, _)
BAddC(a, b, c) ==
  IF a = <<>> /\ b = <<>> THEN (IF c = 0 THEN <<>> ELSE <<c>>)
  ELSE LET x == IF a = <<>> THEN 0 ELSE Head(a)
           y == IF b = <<>> THEN 0 ELSE Head(b)
           s == x + y + c
       IN  <<s % Base>> \o BAddC(IF a = <<>> THEN <<>> ELSE Tail(a),
                                 IF b = <<>> THEN <<>> ELSE Tail(b),
                                 s \div Base)

BAdd(a, b) == BAddC(a, b, 0)

\* a - b for a >= b
RECURSIVE BSubC(_, _, _)
BSubC(a, b, c) ==
  IF a = <<>> THEN <<>>
  ELSE LET y == IF b = <<>> THEN 0 ELSE Head(b)
           d == Head(a) - y - c
       IN  <<d % Base>> \o BSubC(Tail(a),
                                 IF b = <<>> THEN <<>> ELSE Tail(b),
                                 IF d < 0 THEN 1 ELSE 0)

BSub(a, b) == BNorm(BSubC(a, b, 0))

\* a * k + c for a limb k
RECURSIVE BMulSmall(_, _, _)
BMulSmall(a, k, c) ==
  IF a = <<>> THEN (IF c = 0 THEN <<>> ELSE <<c>>)
  ELSE LET p == Head(a) * k + c
       IN  <<p % Base>> \o BMulSmall(Tail(a), k, p \div Base)

RECURSIVE BMulR(_, _)
BMulR(a, b) ==
  IF b = <<>> THEN <<>>
  ELSE BAdd(BMulSmall(a, Head(b), 0), <<0>> \o BMulR(a, Tail(b)))

BMul(a, b) == BNorm(BMulR(a, b))

\* -1, 0, 1 as a < b, a = b, a > b
RECURSIVE BCmpTop(_, _, _)
BCmpTop(a, b, i) ==
  IF i = 0 THEN 0
  ELSE IF a[i] < b[i] THEN -1
  ELSE IF a[i] > b[i] THEN 1
  ELSE BCmpTop(a, b, i - 1)

BCmp(a, b) ==
  IF Len(a) < Len(b) THEN -1
  ELSE IF Len(a) > Len(b) THEN 1
  ELSE BCmpTop(a, b, Len(a))

RECURSIVE NatBits(_)
NatBits(n) == IF n = 0 THEN 0 ELSE 1 + NatBits(n \div 2)

LimbBits == NatBits(Base - 1)

BitLen(a) ==
  IF a = <<>> THEN 0 ELSE (Len(a) - 1) * LimbBits + NatBits(a[Len(a)])

Zeros(n) == [i \in 1..n |-> 0]

\* a * 2^k
BShl(a, k) ==
  IF a = <<>> THEN <<>>
  ELSE Zeros(k \div LimbBits) \o BMulSmall(a, 2^(k % LimbBits), 0)

\* floor(a / 2^k)
RECURSIVE BShrSmall(_, _, _)
BShrSmall(a, k, i) ==
  IF i > Len(a) THEN <<>>
  ELSE LET up == IF i < Len(a) THEN a[i + 1] % (2^k) ELSE 0
       IN  <<(a[i] \div 2^k) + up * 2^(LimbBits - k)>> \o BShrSmall(a, k, i + 1)

BShr(a, k) ==
  LET drop == k \div LimbBits
  IN  IF drop >= Len(a) THEN <<>>
      ELSE BNorm(BShrSmall(SubSeq(a, drop + 1, Len(a)), k % LimbBits, 1))

\* The largest limb q with q * d <= r, found bit by bit from bit j down,
\* for r < Base * d.
RECURSIVE QuotDigit(_, _, _, _)
QuotDigit(r, d, j, q) ==
  IF j < 0 THEN q
  ELSE IF BCmp(BMulSmall(d, q + 2^j, 0), r) <= 0
       THEN QuotDigit(r, d, j - 1, q + 2^j)
       ELSE QuotDigit(r, d, j - 1, q)

\* <<floor(n / d), n mod d>> by long division, one limb of n at a time from
\* the most significant, for d > 0
RECURSIVE BDivMod(_, _)
BDivMod(n, d) ==
  IF n = <<>> THEN << <<>>, <<>> >>
  ELSE LET h == BDivMod(Tail(n), d)
           r == BNorm(<<Head(n)>> \o h[2])
           q == QuotDigit(r, d, LimbBits - 1, 0)
       IN  <<BNorm(<<q>> \o h[1]), BSub(r, BMulSmall(d, q, 0))>>

(***************************************************************************)
(* Python numbers.  An int is [t |-> "int", v |-> n].  A float is          *)
(* [t |-> "float", neg, mant, exp], the number (-1)^neg * mant * 2^exp;    *)
(* the result of an operation is rounded (Round), and then mant has        *)
(* exactly Precision bits or is zero, so that equal floats are equal       *)
(* records.  The D operators are exact, the F operators round.             *)
(***************************************************************************)
Precision == 53

PyInt(n) == [t |-> "int", v |-> n]

Dyadic(neg, mant, exp) == [t |-> "float", neg |-> neg, mant |-> mant, exp |-> exp]

DZero == Dyadic(FALSE, <<>>, 0)

Abs(n) == IF n < 0 THEN -n ELSE n

DFromInt(n) == IF n = 0 THEN DZero ELSE Dyadic(n < 0, BFromNat(Abs(n)), 0)

DNeg(a) == IF a.mant = <<>> THEN a ELSE Dyadic(~a.neg, a.mant, a.exp)

DAdd(a, b) ==
  LET e  == IF a.exp < b.exp THEN a.exp ELSE b.exp
      ma == BShl(a.mant, a.exp - e)
      mb == BShl(b.mant, b.exp - e)
      c  == BCmp(ma, mb)
  IN  IF a.neg = b.neg THEN
        (IF ma = <<>> /\ mb = <<>> THEN DZero ELSE Dyadic(a.neg, BAdd(ma, mb), e))
      ELSE IF c = 0 THEN DZero
      ELSE IF c > 0 THEN Dyadic(a.neg, BSub(ma, mb), e)
      ELSE Dyadic(b.neg, BSub(mb, ma), e)

DSub(a, b) == DAdd(a, DNeg(b))

DMul(a, b) ==
  IF a.mant = <<>> \/ b.mant = <<>> THEN DZero
  ELSE Dyadic(a.neg # b.neg, BMul(a.mant, b.mant), a.exp + b.exp)

\* -1, 0, 1 as a < b, a = b, a > b
DCmp(a, b) ==
  LET d == DSub(a, b)
  IN  IF d.mant = <<>> THEN 0 ELSE IF d.neg THEN -1 ELSE 1

DAbs(a) == Dyadic(FALSE, a.mant, a.exp)

\* Round to nearest, ties to even, to Precision bits.
RoundNearestEven(a) ==
  IF a.mant = <<>> THEN DZero
  ELSE LET L == BitLen(a.mant) IN
    IF L <= Precision
    THEN Dyadic(a.neg, BShl(a.mant, Precision - L), a.exp - (Precision - L))
    ELSE LET sh   == L - Precision
             q    == BShr(a.mant, sh)
             rem  == BSub(a.mant, BShl(q, sh))
             c    == BCmp(rem, BShl(<<1>>, sh - 1))
             up   == c > 0 \/ (c = 0 /\ q[1] % 2 = 1)
             q1   == IF up THEN BAdd(q, <<1>>) ELSE q
         IN  IF BitLen(q1) > Precision
             THEN Dyadic(a.neg, BShr(q1, 1), a.exp + sh + 1)
             ELSE Dyadic(a.neg, q1, a.exp + sh)

Round(a) == RoundNearestEven(a)

FFromInt(n) == Round(DFromInt(n))

FAdd(a, b) == Round(DAdd(a, b))

FSub(a, b) == Round(DSub(a, b))

FMul(a, b) == Round(DMul(a, b))

\* a / b for b # 0: the quotient to Precision + 2 bits or more, with a last
\* bit that is set when the division left a remainder, then rounded.
FDiv(a, b) ==
  IF a.mant = <<>> THEN DZero
  ELSE LET la == BitLen(a.mant)
           lb == BitLen(b.mant)
           k  == Precision + 2 + (IF lb > la THEN lb - la ELSE 0)
           qr == BDivMod(BShl(a.mant, k), b.mant)
           m  == BAdd(BAdd(qr[1], qr[1]), IF qr[2] = <<>> THEN <<>> ELSE <<1>>)
       IN  Round(Dyadic(a.neg # b.neg, m, a.exp - b.exp - k - 1))

\* float(x) of an int or a float
AsFloat(x) == IF x.t = "int" THEN FFromInt(x.v) ELSE x

\* floor of |a| as a natural number
DFloorAbs(a) ==
  IF a.exp >= 0 THEN BToNat(BShl(a.mant, a.exp)) ELSE BToNat(BShr(a.mant, -a.exp))

\* int(a): the float truncated toward zero
Trunc(a) == IF a.neg THEN -DFloorAbs(a) ELSE DFloorAbs(a)

\* ceil(a) as an integer
Ceil(a) ==
  LET f == DFloorAbs(a)
      whole == DCmp(DAbs(a), DFromInt(f)) = 0
  IN  IF a.neg THEN -f ELSE IF whole THEN f ELSE f + 1

(***************************************************************************)
(* cube_lifetime (lines 9-13).  e1, e2, c1, c2 are Python ints, so         *)
(* (e2 - e1) / (c2 - c1) is the true division of two ints: a float, or     *)
(* ZeroDivisionError when the divisor is 0.  x is a numpy array (the call  *)
(* sites) or a number; m * x + b is computed element by element in float64.*)
(***************************************************************************)
ZeroDivisionError == [t |-> "ZeroDivisionError"]

NdArray(dtype, data) == [t |-> "ndarray", dtype |-> dtype, data |-> data]

\* Variant: the two calibration inputs coincide.
DefaultsCoincide == [e1 |-> 0, e2 |-> 960, c1 |-> 10, c2 |-> 10]

Defaults == [e1 |-> 0, e2 |-> 960, c1 |-> 10, c2 |-> 80]

\* Variant: the outputs taken in the wrong order, a falling line.
SlopeSwapped(e1, e2, c1, c2) == FDiv(FFromInt(e1 - e2), FFromInt(c2 - c1))

Slope(e1, e2, c1, c2) == FDiv(FFromInt(e2 - e1), FFromInt(c2 - c1))

\* Variant: the intercept with its sign slipped.
InterceptSignSlip(m, e1, c1) == FAdd(FFromInt(e1), FMul(m, FFromInt(c1)))

Intercept(m, e1, c1) == FSub(FFromInt(e1), FMul(m, FFromInt(c1)))

Line(m, b, x) == FAdd(FMul(m, AsFloat(x)), b)

\* m and b, computed once per call (lines 11-12)
Coefficients(e1, e2, c1, c2) ==
  {[m |-> m, b |-> Intercept(m, e1, c1)] : m \in {Slope(e1, e2, c1, c2)}}

cube_lifetime(x, e1, e2, c1, c2) ==
  IF c2 - c1 = 0 THEN ZeroDivisionError
  ELSE CHOOSE y \in
         { IF x.t = "ndarray"
           THEN NdArray("float64", [i \in DOMAIN x.data |-> Line(k.m, k.b, x.data[i])])
           ELSE Line(k.m, k.b, x)
           : k \in Coefficients(e1, e2, c1, c2) } : TRUE

(***************************************************************************)
(* Floats that are results of operations compare by sign, exponent and     *)
(* significand.                                                            *)
(***************************************************************************)
MagCmp(a, b) ==
  IF a.mant = <<>> \/ b.mant = <<>> THEN
    (IF a.mant = b.mant THEN 0 ELSE IF a.mant = <<>> THEN -1 ELSE 1)
  ELSE IF a.exp < b.exp THEN -1
  ELSE IF a.exp > b.exp THEN 1
  ELSE BCmp(a.mant, b.mant)

FCmp(a, b) ==
  IF a.neg /\ ~b.neg THEN -1
  ELSE IF ~a.neg /\ b.neg THEN 1
  ELSE IF a.neg THEN MagCmp(b, a)
  ELSE MagCmp(a, b)

FLess(a, b) == FCmp(a, b) < 0

FMin(a, b) == IF FCmp(b, a) < 0 THEN b ELSE a

FMax(a, b) == IF FCmp(b, a) > 0 THEN b ELSE a

\* max / min of data[lo..hi], halving the range
RECURSIVE MaxOf(_, _, _)
MaxOf(data, lo, hi) ==
  IF lo = hi THEN data[lo]
  ELSE LET mid == (lo + hi) \div 2
       IN  FMax(MaxOf(data, lo, mid), MaxOf(data, mid + 1, hi))

RECURSIVE MinOf(_, _, _)
MinOf(data, lo, hi) ==
  IF lo = hi THEN data[lo]
  ELSE LET mid == (lo + hi) \div 2
       IN  FMin(MinOf(data, lo, mid), MinOf(data, mid + 1, hi))

ArrayMax(a) == MaxOf(a.data, 1, Len(a.data))

ArrayMin(a) == MinOf(a.data, 1, Len(a.data))

(***************************************************************************)
(* numpy, as the script uses it.                                           *)
(***************************************************************************)
\* np.linspace(start, stop, num): step = (stop - start) / (num - 1), the
\* elements are k * step + start and the last one is stop itself.
linspace(start, stop, num) ==
  CHOOSE y \in
    { NdArray("float64",
        [i \in 1..num |-> IF i = num THEN p.z
                          ELSE FAdd(FMul(FFromInt(i - 1), p.step), p.a)])
      : p \in { [a |-> a, z |-> z, step |-> FDiv(FSub(z, a), FFromInt(num - 1))]
                : a \in {FFromInt(start)}, z \in {FFromInt(stop)} } } : TRUE

\* np.arange(start, stop, step) with a float stop: ceil((stop - start) / step)
\* elements start + k * step.
arange(start, stop, step) ==
  LET a == AsFloat(start)
      d == AsFloat(step)
      n == Ceil(FDiv(FSub(AsFloat(stop), a), d))
  IN  NdArray("float64",
        [i \in 1..(IF n < 0 THEN 0 ELSE n) |-> FAdd(a, FMul(FFromInt(i - 1), d))])

\* array / scalar: a new float64 array
true_divide(a, k) ==
  NdArray("float64", [i \in DOMAIN a.data |-> FDiv(AsFloat(a.data[i]), AsFloat(k))])

(***************************************************************************)
(* The script's constants and literals.                                    *)
(***************************************************************************)
\* Variant: a day taken as 24 epochs.
epochs_per_day_24 == 8 * 3

epochs_per_day == 16

epoch_increments == 80

XValues == linspace(10, 80, 500)

ChallengePoints ==
  NdArray("int64", [i \in 1..9 |-> PyInt(10 + 5 * (i - 1))])

\* Variant: ticks every 10 levels.
AdditionalXTicksBy10 == [j \in 1..8 |-> PyInt(10 * j)]

AdditionalXTicks ==
  <<PyInt(10), PyInt(15), PyInt(20), PyInt(25), PyInt(30), PyInt(35), PyInt(40),
    PyInt(45), PyInt(50), PyInt(55), PyInt(60), PyInt(65), PyInt(70), PyInt(75),
    PyInt(80)>>

\* Variant: the range stops at the maximum itself.
YTicksEpochsNoPad(yv) == arange(PyInt(0), ArrayMax(yv), PyInt(epoch_increments))

\* y_ticks_epochs (line 36)
YTicksEpochs(yv) ==
  arange(PyInt(0), FAdd(ArrayMax(yv), FFromInt(epoch_increments)),
         PyInt(epoch_increments))

\* Variant: the division done in place (y_ticks_epochs /= epochs_per_day),
\* both names then bound to the one array.
YTicksDaysInPlace(ticks) ==
  <<true_divide(ticks, PyInt(epochs_per_day)), true_divide(ticks, PyInt(epochs_per_day))>>

\* Line 41: the quotient is a new array; y_ticks_epochs is only read.
\* <<y_ticks_epochs, y_ticks_days>> after the statement.
YTicksDays(ticks) == <<ticks, true_divide(ticks, PyInt(epochs_per_day))>>

\* f"{int(y)}" (line 31) and f"{int(tick)}d" (line 43)
AnnotationText(y) == ToString(Trunc(y))

TickLabel(tick) == ToString(Trunc(tick)) \o "d"

(***************************************************************************)
(* matplotlib, as far as the y axes go.  An axes has the y interval of the *)
(* data plotted on it (dataLim), its y limits (viewLim, initially 0..1), a *)
(* flag that the limits are to be recomputed from the data before they are *)
(* next read (stale), and its tick positions and labels.                   *)
(***************************************************************************)
None == [t |-> "None"]

Interval(lo, hi) == [lo |-> lo, hi |-> hi]

NewAxes ==
  [dataLim |-> None, viewLim |-> Interval(DZero, FFromInt(1)), stale |-> FALSE,
   yticks |-> None, yticklabels |-> None, xticks |-> None,
   xlabel |-> None, ylabel |-> None, legend |-> None]

\* plot: the data interval grows to hold the new y values; autoscale is
\* requested.
Plot(ax, lo, hi) ==
  [ax EXCEPT !.dataLim = IF ax.dataLim = None THEN Interval(lo, hi)
                         ELSE Interval(FMin(ax.dataLim.lo, lo), FMax(ax.dataLim.hi, hi)),
             !.stale = TRUE]

\* autoscale_view: the data interval widened on both sides by margin times
\* its length.
Autoscale(ax, margin) ==
  IF ax.stale /\ ax.dataLim # None
  THEN LET delta == FMul(FSub(ax.dataLim.hi, ax.dataLim.lo), margin)
       IN  [ax EXCEPT !.viewLim = Interval(FSub(ax.dataLim.lo, delta),
                                           FAdd(ax.dataLim.hi, delta)),
                      !.stale = FALSE]
  ELSE [ax EXCEPT !.stale = FALSE]

\* set_yticks: the positions are kept, and the limits grow to hold them.
SetYTicks(ax, margin, ticks) ==
  LET a == Autoscale(ax, margin)
  IN  IF Len(ticks.data) = 0 THEN [a EXCEPT !.yticks = ticks]
      ELSE [a EXCEPT !.yticks = ticks,
                     !.viewLim = Interval(FMin(a.viewLim.lo, ArrayMin(ticks)),
                                          FMax(a.viewLim.hi, ArrayMax(ticks)))]

\* Variant: the secondary limits recomputed from the plotted data.
SecondaryLimitsFromData(ax, margin, ratio) ==
  Interval(FDiv(ax.dataLim.lo, FFromInt(ratio)), FDiv(ax.dataLim.hi, FFromInt(ratio)))

\* Line 46: the limits read from the primary axis, each divided by the ratio.
SecondaryLimits(ax, margin, ratio) ==
  LET lim == Autoscale(ax, margin).viewLim
  IN  Interval(FDiv(lim.lo, FFromInt(ratio)), FDiv(lim.hi, FFromInt(ratio)))

(***************************************************************************)
(* The script, one action per statement.  pc names the line of the next    *)
(* statement.  ymargin is matplotlib's axes.ymargin setting, which the     *)
(* script leaves to the installation (0.05 unless configured).             *)
(***************************************************************************)
MaxMarginSteps == 3

DefaultMargin == FDiv(FFromInt(1), FFromInt(20))

Margins == {FDiv(FFromInt(k), FFromInt(20)) : k \in 0..MaxMarginSteps}

VARIABLES pc, ymargin,
          x_values, challenge_points, y_values, y_values_points,
          y_ticks_epochs, y_ticks_days, additional_x_ticks,
          i, ax1, ax2, annotations, title,
          arg, ret

arrays == <<x_values, challenge_points, y_values, y_values_points,
            y_ticks_epochs, y_ticks_days, additional_x_ticks>>

figure == <<ax1, ax2, annotations, title>>

call == <<arg, ret>>

vars == <<pc, ymargin, arrays, i, figure, call>>

ScriptStart ==
  /\ pc = "L16"
  /\ x_values = None /\ challenge_points = None
  /\ y_values = None /\ y_values_points = None
  /\ y_ticks_epochs = None /\ y_ticks_days = None
  /\ additional_x_ticks = None
  /\ i = 0
  /\ ax1 = None /\ ax2 = None
  /\ annotations = <<>>
  /\ title = None

Init ==
  /\ ScriptStart
  /\ ymargin \in Margins
  /\ arg = None /\ ret = None

\* line 16
Linspace ==
  /\ pc = "L16"
  /\ x_values' = XValues
  /\ pc' = "L17"
  /\ UNCHANGED <<ymargin, challenge_points, y_values, y_values_points,
                 y_ticks_epochs, y_ticks_days, additional_x_ticks, i, figure, call>>

\* line 17
Challenge ==
  /\ pc = "L17"
  /\ challenge_points' = ChallengePoints
  /\ pc' = "L20"
  /\ UNCHANGED <<ymargin, x_values, y_values, y_values_points,
                 y_ticks_epochs, y_ticks_days, additional_x_ticks, i, figure, call>>

\* line 20
EvalCurve ==
  /\ pc = "L20"
  /\ y_values' = cube_lifetime(x_values, Defaults.e1, Defaults.e2, Defaults.c1, Defaults.c2)
  /\ pc' = IF y_values'.t = "ZeroDivisionError" THEN "raised" ELSE "L21"
  /\ UNCHANGED <<ymargin, x_values, challenge_points, y_values_points,
                 y_ticks_epochs, y_ticks_days, additional_x_ticks, i, figure, call>>

\* line 21
EvalPoints ==
  /\ pc = "L21"
  /\ y_values_points' =
       cube_lifetime(challenge_points, Defaults.e1, Defaults.e2, Defaults.c1, Defaults.c2)
  /\ pc' = IF y_values_points'.t = "ZeroDivisionError" THEN "raised" ELSE "L24"
  /\ UNCHANGED <<ymargin, x_values, challenge_points, y_values,
                 y_ticks_epochs, y_ticks_days, additional_x_ticks, i, figure, call>>

\* line 24
Subplots ==
  /\ pc = "L24"
  /\ ax1' = NewAxes
  /\ pc' = "L27"
  /\ UNCHANGED <<ymargin, arrays, i, ax2, annotations, title, call>>

\* line 27
PlotCurve ==
  /\ pc = "L27"
  /\ ax1' = [Plot(ax1, ArrayMin(y_values), ArrayMax(y_values))
               EXCEPT !.legend = "Cube Lifetime (Epochs)"]
  /\ pc' = "L30"
  /\ UNCHANGED <<ymargin, arrays, i, ax2, annotations, title, call>>

\* line 30: the next pair of zip(challenge_points, y_values_points), or the
\* end of the loop
ForNext ==
  /\ pc = "L30"
  /\ pc' = IF i < Len(challenge_points.data) THEN "L31" ELSE "L36"
  /\ UNCHANGED <<ymargin, arrays, i, figure, call>>

\* line 31
Annotate ==
  /\ pc = "L31"
  /\ annotations' = Append(annotations,
       [x |-> challenge_points.data[i + 1],
        y |-> y_values_points.data[i + 1],
        text |-> AnnotationText(y_values_points.data[i + 1])])
  /\ pc' = "L33"
  /\ UNCHANGED <<ymargin, arrays, i, ax1, ax2, title, call>>

\* line 33
PlotMarker ==
  /\ pc = "L33"
  /\ ax1' = Plot(ax1, y_values_points.data[i + 1], y_values_points.data[i + 1])
  /\ i' = i + 1
  /\ pc' = "L30"
  /\ UNCHANGED <<ymargin, arrays, ax2, annotations, title, call>>

\* line 36
TicksEpochs ==
  /\ pc = "L36"
  /\ y_ticks_epochs' = YTicksEpochs(y_values)
  /\ pc' = "L37"
  /\ UNCHANGED <<ymargin, x_values, challenge_points, y_values, y_values_points,
                 y_ticks_days, additional_x_ticks, i, figure, call>>

\* line 37
SetTicksEpochs ==
  /\ pc = "L37"
  /\ ax1' = SetYTicks(ax1, ymargin, y_ticks_epochs)
  /\ pc' = "L40"
  /\ UNCHANGED <<ymargin, arrays, i, ax2, annotations, title, call>>

\* line 40
Twinx ==
  /\ pc = "L40"
  /\ ax2' = NewAxes
  /\ pc' = "L41"
  /\ UNCHANGED <<ymargin, arrays, i, ax1, annotations, title, call>>

\* line 41
TicksDays ==
  /\ pc = "L41"
  /\ y_ticks_epochs' = YTicksDays(y_ticks_epochs)[1]
  /\ y_ticks_days' = YTicksDays(y_ticks_epochs)[2]
  /\ pc' = "L42"
  /\ UNCHANGED <<ymargin, x_values, challenge_points, y_values, y_values_points,
                 additional_x_ticks, i, figure, call>>

\* line 42
SetTicksDays ==
  /\ pc = "L42"
  /\ ax2' = SetYTicks(ax2, ymargin, y_ticks_days)
  /\ pc' = "L43"
  /\ UNCHANGED <<ymargin, arrays, i, ax1, annotations, title, call>>

\* line 43
SetTickLabels ==
  /\ pc = "L43"
  /\ ax2' = [ax2 EXCEPT !.yticklabels =
               [k \in DOMAIN y_ticks_days.data |-> TickLabel(y_ticks_days.data[k])]]
  /\ pc' = "L46"
  /\ UNCHANGED <<ymargin, arrays, i, ax1, annotations, title, call>>

\* line 46
SetSecondaryLimits ==
  /\ pc = "L46"
  /\ ax1' = Autoscale(ax1, ymargin)
  /\ ax2' = [ax2 EXCEPT !.viewLim = SecondaryLimits(ax1, ymargin, epochs_per_day),
                        !.stale = FALSE]
  /\ pc' = "L49"
  /\ UNCHANGED <<ymargin, arrays, i, annotations, title, call>>

\* line 49
XTicksList ==
  /\ pc = "L49"
  /\ additional_x_ticks' = AdditionalXTicks
  /\ pc' = "L50"
  /\ UNCHANGED <<ymargin, x_values, challenge_points, y_values, y_values_points,
                 y_ticks_epochs, y_ticks_days, i, figure, call>>

\* line 50
SetXTicks ==
  /\ pc = "L50"
  /\ ax1' = [ax1 EXCEPT !.xticks = additional_x_ticks]
  /\ pc' = "L53"
  /\ UNCHANGED <<ymargin, arrays, i, ax2, annotations, title, call>>

\* lines 53-55
SetXLabel ==
  /\ pc = "L53"
  /\ ax1' = [ax1 EXCEPT !.xlabel = "Challenge Level (Bits)"]
  /\ pc' = "L54"
  /\ UNCHANGED <<ymargin, arrays, i, ax2, annotations, title, call>>

SetYLabel1 ==
  /\ pc = "L54"
  /\ ax1' = [ax1 EXCEPT !.ylabel = "Cube Lifetime (Epochs)"]
  /\ pc' = "L55"
  /\ UNCHANGED <<ymargin, arrays, i, ax2, annotations, title, call>>

SetYLabel2 ==
  /\ pc = "L55"
  /\ ax2' = [ax2 EXCEPT !.ylabel = "Cube Lifetime (Days)"]
  /\ pc' = "L58"
  /\ UNCHANGED <<ymargin, arrays, i, ax1, annotations, title, call>>

\* line 58
Title ==
  /\ pc = "L58"
  /\ title' = "Cube Lifetime Function"
  /\ pc' = "L59"
  /\ UNCHANGED <<ymargin, arrays, i, ax1, ax2, annotations, call>>

\* line 59: the legend lists the labelled curve; no limits or ticks change
Legend ==
  /\ pc = "L59"
  /\ pc' = "L62"
  /\ UNCHANGED <<ymargin, arrays, i, figure, call>>

\* line 62: the figure is drawn; limits not read since the last plot would
\* be recomputed here
Show ==
  /\ pc = "L62"
  /\ ax1' = Autoscale(ax1, ymargin)
  /\ ax2' = Autoscale(ax2, ymargin)
  /\ pc' = "shown"
  /\ UNCHANGED <<ymargin, arrays, i, annotations, title, call>>

Next ==
  \/ Linspace \/ Challenge \/ EvalCurve \/ EvalPoints \/ Subplots \/ PlotCurve
  \/ ForNext \/ Annotate \/ PlotMarker \/ TicksEpochs \/ SetTicksEpochs
  \/ Twinx \/ TicksDays \/ SetTicksDays \/ SetTickLabels \/ SetSecondaryLimits
  \/ XTicksList \/ SetXTicks \/ SetXLabel \/ SetYLabel1 \/ SetYLabel2
  \/ Title \/ Legend \/ Show

Spec == Init /\ [][Next]_vars

(***************************************************************************)
(* cube_lifetime on its own: one call with the default calibration, on an  *)
(* input drawn from the challenge levels 10..80 and the samples of the     *)
(* dense curve.                                                            *)
(***************************************************************************)
Levels == {PyInt(n) : n \in 10..80}

Inputs == Levels \cup {XValues.data[k] : k \in DOMAIN XValues.data}

InitModel ==
  /\ ScriptStart
  /\ ymargin = DefaultMargin
  /\ arg \in Inputs
  /\ ret = None

Call ==
  /\ ret = None
  /\ ret' = cube_lifetime(arg, Defaults.e1, Defaults.e2, Defaults.c1, Defaults.c2)
  /\ UNCHANGED <<pc, ymargin, arrays, i, figure, arg>>

NextModel == Call

SpecModel == InitModel /\ [][NextModel]_vars

(***************************************************************************)
(* Properties.                                                             *)
(***************************************************************************)
Half == Dyadic(FALSE, <<1>>, -1)

Range(f) == {f[k] : k \in DOMAIN f}

\* the integer an annotation shows
IntOfText(text) == CHOOSE n \in -1100..1100 : ToString(n) = text

NearestInteger(n, y) == DCmp(DAbs(DSub(DFromInt(n), y)), Half) <= 0

\* C1: every annotation drawn at a challenge input x shows cube_lifetime(x)
\* rounded to the nearest integer: the integer n shown has |n - y| <= 1/2.
C1_AnnotationsRounded ==
  \A k \in DOMAIN annotations :
    /\ annotations[k].y = y_values_points.data[k]
    /\ NearestInteger(IntOfText(annotations[k].text), annotations[k].y)

\* C2: with the default calibration, cube_lifetime(10) is exactly 0 and
\* cube_lifetime(80) is exactly 960.
C2_CalibrationPointsExact ==
  ret # None =>
    /\ AsFloat(arg) = FFromInt(Defaults.c1) => ret = FFromInt(Defaults.e1)
    /\ AsFloat(arg) = FFromInt(Defaults.c2) => ret = FFromInt(Defaults.e2)

C2_Witness ==
  /\ arg = PyInt(80)
  /\ ret = FFromInt(960)

\* C3: cube_lifetime is strictly increasing on the inputs of the display
\* domain: whenever one input of the dense curve (or one challenge input) is
\* less than another, its output is less too.
Increasing(xs, ys) ==
  \A a, b \in DOMAIN xs.data :
    FLess(AsFloat(xs.data[a]), AsFloat(xs.data[b])) => FLess(ys.data[a], ys.data[b])

C4_PrimaryTicks ==
  y_ticks_epochs # None =>
    LET t == y_ticks_epochs.data
    IN  /\ Len(t) >= 1
        /\ t[1] = DZero
        /\ \A k \in 1..(Len(t) - 1) :
             DCmp(DSub(t[k + 1], t[k]), DFromInt(epoch_increments)) = 0
        /\ FCmp(t[Len(t)], ArrayMax(y_values)) >= 0
        /\ t = [k \in 1..13 |-> FFromInt(80 * (k - 1))]

C4_Witness ==
  /\ pc = "L37"
  /\ y_ticks_epochs.data[13] = FFromInt(960)
  /\ ArrayMax(y_values) = FFromInt(960)

\* C5: from the statement that sets the secondary limits up to the shown
\* chart, the secondary limits are the primary limits divided by
\* epochs_per_day, each secondary tick is the primary tick of the same index
\* divided by epochs_per_day, and both sit at the same relative position of
\* their axis ranges.
AfterLimits == {"L49", "L50", "L53", "L54", "L55", "L58", "L59", "L62", "shown"}

Scaled(days, epochs) == DCmp(DMul(days, DFromInt(epochs_per_day)), epochs) = 0

SamePosition(t1, l1, t2, l2) ==
  DCmp(DMul(DSub(t1, l1.lo), DSub(l2.hi, l2.lo)),
       DMul(DSub(t2, l2.lo), DSub(l1.hi, l1.lo))) = 0

C5_AxesAligned ==
  pc \in AfterLimits =>
    /\ ~ax1.stale /\ ~ax2.stale
    /\ Scaled(ax2.viewLim.lo, ax1.viewLim.lo)
    /\ Scaled(ax2.viewLim.hi, ax1.viewLim.hi)
    /\ DOMAIN ax2.yticks.data = DOMAIN ax1.yticks.data
    /\ \A k \in DOMAIN ax1.yticks.data :
         /\ Scaled(ax2.yticks.data[k], ax1.yticks.data[k])
         /\ SamePosition(ax1.yticks.data[k], ax1.viewLim,
                         ax2.yticks.data[k], ax2.viewLim)

C5_Witness ==
  /\ pc = "shown"
  /\ ymargin = DefaultMargin
  /\ ax1.yticks.data[13] = FFromInt(960)
  /\ ax2.yticks.data[13] = FFromInt(60)
  /\ ax1.viewLim = Interval(FFromInt(-48), FFromInt(1008))
  /\ ax2.viewLim = Interval(FFromInt(-3), FFromInt(63))

\* C6: once the input-axis ticks are set, every challenge input is one of
\* them, and the ticks are the fixed ascending list 10, 15, ..., 80.
AfterXTicks == {"L53", "L54", "L55", "L58", "L59", "L62", "shown"}

C6_ChallengePointsTicked ==
  pc \in AfterXTicks =>
    /\ Range(challenge_points.data) \subseteq Range(ax1.xticks)
    /\ ax1.xticks = [j \in 1..15 |-> PyInt(10 + 5 * (j - 1))]

C6_Witness ==
  /\ pc = "shown"
  /\ PyInt(45) \in Range(challenge_points.data)
  /\ PyInt(45) \in Range(ax1.xticks)

\* C7: a call of cube_lifetime with the default calibration returns a float
\* for every input; it never ends in ZeroDivisionError.
C7_NoDivisionError ==
  ret # None => ret.t = "float"

C7_Witness ==
  /\ arg = PyInt(15)
  /\ ret # None
  /\ ret.t = "float"

\* C8: once computed, x_values, challenge_points, y_values, y_values_points
\* and y_ticks_epochs keep their values in every later step of the script.
Kept(v, w) == v # None => w = v

C8_DataUnchanged ==
  [][/\ Kept(x_values, x_values')
     /\ Kept(challenge_points, challenge_points')
     /\ Kept(y_values, y_values')
     /\ Kept(y_values_points, y_values_points')
     /\ Kept(y_ticks_epochs, y_ticks_epochs')]_vars

C8_Witness ==
  /\ pc = "shown"
  /\ y_ticks_days.data[2] = FFromInt(5)
  /\ y_ticks_epochs.data[2] = FFromInt(80)
  /\ ax2.viewLim.hi # ax1.viewLim.hi
  /\ x_values.data[500] = FFromInt(80)
  /\ y_values.data[500] = FFromInt(960)

\* C9: when the chart is shown, the lower limit of the secondary (days)
\* axis is 0.
C9_SecondaryStartsAtZero ==
  pc = "shown" => ax2.viewLim.lo = DZero

\* C10: the secondary tick labels are 0d, 5d, ..., 60d, one per primary
\* tick and in the same order, and every secondary tick is a whole number,
\* so the truncation in the label loses nothing.
C10_LabelsExact ==
  (ax2 # None /\ ax2.yticklabels # None) =>
    /\ DOMAIN ax2.yticklabels = DOMAIN y_ticks_epochs.data
    /\ \A k \in DOMAIN ax2.yticklabels :
         /\ FFromInt(Trunc(y_ticks_days.data[k])) = y_ticks_days.data[k]
         /\ ax2.yticklabels[k] = ToString(Trunc(ax2.yticks.data[k])) \o "d"
         /\ ax2.yticklabels[k] = ToString(5 * (k - 1)) \o "d"
    /\ ax2.yticklabels[13] = "60d"

C10_Witness ==
  /\ pc = "L46"
  /\ ax2.yticklabels[2] = "5d"
  /\ ax2.yticklabels[13] = "60d"

====
